---- MODULE Spec2Model ----
(***************************************************************************)
(* The OAI-PMH client of untdl-harvest: Endpoint (request, recovery,       *)
(* protocol errors, pagination) and Harvester, from                        *)
(* src/src/untdl_harvest/oai.py.                                           *)
(*                                                                         *)
(* Python values: None is the empty sequence, any other optional value x   *)
(* is <<x>>.  A dict is the sequence of its [k, v] items in insertion      *)
(* order.  A string built by the program is the sequence of its pieces.    *)
(* An XML document is the sequence of its elements in document order.      *)
(***************************************************************************)
EXTENDS Integers, Sequences, FiniteSets, TLC

\* ---------------------------------------------------------------- bounds
MaxPages == 2
MaxReq == 3
MaxCalls == 2
\* passes of the harvesting loop followed
MaxIter == 3

\* Endpoint(url, max_recoveries=N): the budgets tried.
InitialBudgets == {0, 1}

\* ------------------------------------------------------ program constants
default_recovery_time == 60
SERVICE_UNAVAILABLE == 503

None == <<>>
Some(x) == <<x>>

OAI_NS == "http://www.openarchives.org/OAI/2.0/"

\* Endpoint.__init__: the namespace mapping always holds the prefix oai.
namespaces == [oai |-> OAI_NS]

\* -------------------------------------------------------- make_querystring
RECURSIVE JoinAmp(_)
\* '&'.join(parts): the parts with one "&" between neighbours.
JoinAmp(parts) ==
    IF parts = <<>> THEN <<>>
    ELSE IF Len(parts) = 1 THEN parts[1]
    ELSE parts[1] \o <<"&">> \o JoinAmp(Tail(parts))

\* f'{k}={v}' for one pair whose value is not None.
FormatPair(p) == <<p.k, "=", p.v[1]>>

\* f'{k}={v}' for a pair whatever its value: None formats as the text None.
FormatPairUnfiltered(p) == <<p.k, "=", IF p.v = None THEN "None" ELSE p.v[1]>>

\* A make_querystring that keeps the pairs whose value is None.
make_querystring_keep_none(verb, arguments) ==
    LET pairs == <<[k |-> "verb", v |-> verb]>> \o arguments
    IN  <<"?">> \o JoinAmp([i \in 1..Len(pairs) |-> FormatPairUnfiltered(pairs[i])])

make_querystring(verb, arguments) ==
    LET pairs == <<[k |-> "verb", v |-> verb]>> \o arguments
        kept == SelectSeq(pairs, LAMBDA p : p.v # None)
    IN  <<"?">> \o JoinAmp([i \in 1..Len(kept) |-> FormatPair(kept[i])])

\* ------------------------------------------------------------ ETreeXmlDoc
\* The outcome of evaluating an expression: a value, or an exception raised.
Ok(x) == [ok |-> TRUE, val |-> x, exc |-> "none"]
Raise(e) == [ok |-> FALSE, val |-> None, exc |-> e]

\* ETreeXmlDoc.__init__: an instance has the attributes root and namespaces.
\* root is the wrapped node, here the elements of its subtree in document
\* order (what root.iter walks).
ETreeXmlDoc(etree_node, ns) == [root |-> etree_node, namespaces |-> ns]

\* Attribute access on an ETreeXmlDoc: the class defines neither the
\* attribute nor __getattr__, so any name but root and namespaces raises
\* AttributeError.
GetAttr(doc, name) ==
    IF name \in DOMAIN doc THEN Ok(doc[name]) ELSE Raise("AttributeError")

\* expand_tagname: 'prefix:field' becomes '{namespace}field'.
expand_tagname(doc, tagname) == <<doc.namespaces[tagname[1]], tagname[2]>>

\* findall_tag: every element with the tag, in document order, each wrapped
\* in a new ETreeXmlDoc.
findall_tag(doc, tag) ==
    LET els == SelectSeq(doc.root, LAMBDA el : el.tag = expand_tagname(doc, tag))
    IN  [i \in 1..Len(els) |-> ETreeXmlDoc(<<els[i]>>, doc.namespaces)]

\* A find_tag that gives the last element with the tag rather than the first.
find_tag_last(doc, tag) ==
    LET found == findall_tag(doc, tag)
    IN  IF found = <<>> THEN None ELSE Some(found[Len(found)])

\* find_tag: the first element with the tag, wrapped, or None.
find_tag(doc, tag) ==
    LET found == findall_tag(doc, tag)
    IN  IF found = <<>> THEN None ELSE Some(found[1])

\* docfilter_ids: [el.text for el in page.findall_tag('oai:identifier')],
\* el being an ETreeXmlDoc.
docfilter_ids(page) ==
    LET els == findall_tag(page, <<"oai", "identifier">>)
        texts == [i \in 1..Len(els) |-> GetAttr(els[i], "text")]
    IN  IF \E i \in 1..Len(els) : ~texts[i].ok THEN Raise("AttributeError")
        ELSE Ok([i \in 1..Len(els) |-> texts[i].val])

\* docfilter_records: list(page.findall_tag('oai:record')).
docfilter_records(page) == Ok(findall_tag(page, <<"oai", "record">>))

\* docfilter(page) for the extractor handed to compile_data.
ApplyFilter(f, page) ==
    IF f = "docfilter_ids" THEN docfilter_ids(page) ELSE docfilter_records(page)

\* ------------------------------------------------------------ exceptions
Exc(type, why, oai) == [type |-> type, why |-> why, oai |-> oai]

\* _bail: ', '.join([e.code ...]) joins the integer status codes of the
\* accumulated HTTP errors, which str.join refuses with TypeError; with no
\* HTTP error accumulated the join is '' and EndpointError is raised with the
\* reason and the protocol error.
_bail(why_bail, errors, oai) ==
    IF errors # <<>> THEN Exc("TypeError", None, None)
    ELSE Exc("EndpointError", why_bail, oai)

\* ------------------------------------------------------------- the server
\* The remote archive: a chain of pages, page i < k ending in a resumption
\* token that names page i+1; the last page carries no token element or an
\* empty one.
IdEl(t) == [tag |-> <<OAI_NS, "identifier">>, text |-> Some(t)]
RecEl(t) == [tag |-> <<OAI_NS, "record">>, text |-> Some(t)]
TokEl(t) == [tag |-> <<OAI_NS, "resumptionToken">>, text |-> t]

TokenText == <<"tok1", "tok2", "tok3", "tok4">>

Bodies ==
    { <<RecEl("r1"), IdEl("a"), RecEl("r2"), IdEl("b")>>,
      <<IdEl("c")>> }

MkChain(bs, last) ==
    [i \in 1..Len(bs) |->
        bs[i] \o (IF i < Len(bs) THEN <<TokEl(Some(TokenText[i + 1]))>>
                  ELSE IF last = "empty" THEN <<TokEl(None)>>
                  ELSE <<>>)]

Chains ==
    { MkChain(bs, last) :
        bs \in UNION {[1..n -> Bodies] : n \in 1..MaxPages},
        last \in {"absent", "empty"} }

\* The server's reading of a query string: the k=v pairs between the &s.
ParseQS(qs) == [j \in 1..(Len(qs) \div 4) |-> [k |-> qs[4 * j - 2], v |-> qs[4 * j]]]

QueryArg(qs, key) ==
    LET m == SelectSeq(ParseQS(qs), LAMBDA p : p.k = key)
    IN  IF m = <<>> THEN None ELSE Some(m[1].v)

TokenIndex(t) ==
    IF \E i \in 1..Len(TokenText) : TokenText[i] = t
    THEN CHOOSE i \in 1..Len(TokenText) : TokenText[i] = t
    ELSE 0

\* The page the server owes a request: the page a resumption token names
\* (the token being the only argument), the first page for a request with a
\* metadataPrefix, and 0 (badArgument) otherwise.
ServerPageIndex(qs, ch) ==
    LET tok == QueryArg(qs, "resumptionToken")
        i == IF tok # None
             THEN (IF Len(ParseQS(qs)) = 2 THEN TokenIndex(tok[1]) ELSE 0)
             ELSE IF QueryArg(qs, "metadataPrefix") # None THEN 1
             ELSE 0
    IN  IF i \in 1..Len(ch) THEN i ELSE 0

\* Retry-After headers a 503 may carry: none, negative, zero, positive.
RetryAfterHeaders == {None, Some(-1), Some(0), Some(5)}
OtherHttpCodes == {500}
OaiErrors == {[code |-> "badArgument", msg |-> "Bad argument"]}

\* ------------------------------------------------------------- Harvester
UserOptions ==
    { [metadataPrefix |-> None, from |-> Some("2020-01-01"),
       until |-> Some("2020-12-31"), set |-> None],
      [metadataPrefix |-> Some("untl_raw"), from |-> None, until |-> None,
       set |-> Some("access_rights:public")] }

\* Harvester.__init__: the normalized option set.
HarvesterOptions(o) ==
    << [k |-> "metadataPrefix",
        v |-> IF o.metadataPrefix = None THEN Some("oai_dc") ELSE o.metadataPrefix],
       [k |-> "from", v |-> o.from],
       [k |-> "until", v |-> o.until],
       [k |-> "set", v |-> o.set] >>

OptionValue(opts, key) ==
    LET m == SelectSeq(opts, LAMBDA p : p.k = key)
    IN  IF m = <<>> THEN None ELSE m[1].v

Identifiers == {"ark:/67531/metadc1"}

\* ------------------------------------------------------------------ state
VARIABLES
    \* Endpoint
    max_recoveries, num_recoveries, http_errors, oai_error,
    raw_bytes, data_bytes, last_page, sleep_time,
    \* Harvester
    options,
    \* the remote archive
    chain,
    \* the call in progress: which operation, its frame, its outcome
    op, status, exc, result, verb, arguments, docfilter, data,
    depth, override,
    \* what the call has put on the wire and got back
    reqs, wire, slept, trigger, fetched, lastResp,
    \* the session: calls made, requests sent, the constructor's max_recoveries
    calls, sent, max0,
    \* harvest_all_from_collection: its locals ark_ids, items, ark_id and num,
    \* the files written, where the function stands, what the last pass of
    \* the loop came to, the identifiers tried so far, and what get_ids gave
    h_ark_ids, h_items, h_ark_id, h_num, h_saved, h_pc, h_outcome,
    h_attempted, h_ids0

endpointVars ==
    <<max_recoveries, num_recoveries, http_errors, oai_error,
      raw_bytes, data_bytes, last_page, sleep_time>>
vars ==
    <<max_recoveries, num_recoveries, http_errors, oai_error,
      raw_bytes, data_bytes, last_page, sleep_time, options, chain,
      op, status, exc, result, verb, arguments, docfilter, data, depth, override,
      reqs, wire, slept, trigger, fetched, lastResp, calls, sent, max0,
      h_ark_ids, h_items, h_ark_id, h_num, h_saved, h_pc, h_outcome,
      h_attempted, h_ids0>>
harvestVars ==
    <<h_ark_ids, h_items, h_ark_id, h_num, h_saved, h_pc, h_outcome,
      h_attempted, h_ids0>>

\* harvest_all_from_collection has not been called.
HarvestNotCalled ==
    /\ h_ark_ids = {} /\ h_items = <<>> /\ h_ark_id = None /\ h_num = 0
    /\ h_saved = {} /\ h_pc = "none" /\ h_outcome = "none"
    /\ h_attempted = <<>> /\ h_ids0 = {}

NoResp == [kind |-> "none", code |-> 0, hdrs |-> None, oai |-> None, page |-> None]
HttpResp(code, hdrs) ==
    [kind |-> "http", code |-> code, hdrs |-> hdrs, oai |-> None, page |-> None]
PageResp(page) ==
    [kind |-> "page", code |-> 200, hdrs |-> None, oai |-> None, page |-> Some(page)]
OaiResp(e) ==
    [kind |-> "oaierror", code |-> 200, hdrs |-> None, oai |-> Some(e), page |-> None]
MalformedResp ==
    [kind |-> "malformed", code |-> 200, hdrs |-> None, oai |-> None, page |-> None]

\* Endpoint.__init__ with a URL, then Harvester.__init__; nothing called yet.
Init ==
    /\ max0 \in InitialBudgets
    /\ max_recoveries = max0
    /\ num_recoveries = 0
    /\ http_errors = <<>>
    /\ oai_error = None
    /\ raw_bytes = 0
    /\ data_bytes = 0
    /\ last_page = None
    /\ sleep_time = 0
    /\ options \in {HarvesterOptions(o) : o \in UserOptions}
    /\ chain \in Chains
    /\ op = "none" /\ status = "idle" /\ exc = None /\ result = None
    /\ verb = None /\ arguments = <<>> /\ docfilter = "none" /\ data = <<>>
    /\ depth = 0 /\ override = None
    /\ reqs = 0 /\ wire = <<>> /\ slept = 0 /\ trigger = None
    /\ fetched = <<>> /\ lastResp = NoResp
    /\ calls = 0
    /\ sent = 0
    /\ HarvestNotCalled

\* ------------------------------------------------------------ the calls
\* A caller enters an operation: a fresh frame, nothing on the wire yet.
Enter(o, v, args, f) ==
    /\ UNCHANGED harvestVars
    /\ status # "running"
    /\ calls < MaxCalls
    /\ calls' = calls + 1
    /\ op' = o /\ status' = "running" /\ exc' = None /\ result' = None
    /\ verb' = Some(v) /\ arguments' = args /\ docfilter' = f /\ data' = <<>>
    /\ depth' = 0 /\ override' = None
    /\ reqs' = 0 /\ wire' = <<>> /\ slept' = 0 /\ trigger' = None
    /\ fetched' = <<>> /\ lastResp' = NoResp
    /\ UNCHANGED <<endpointVars, options, chain, sent, max0>>

\* Endpoint.get_page(verb, arguments) called by a client of the endpoint.
CallGetPage ==
    \E v \in {"ListIdentifiers"} : Enter("get_page", v, options, "none")

\* Harvester.get_ids(docfilter): compile_data('ListIdentifiers', options,
\* docfilter), the extractor defaulting to docfilter_ids.
CallGetIds ==
    \E f \in {"docfilter_ids", "docfilter_records"} :
        Enter("get_ids", "ListIdentifiers", options, f)

\* Harvester.get_record(identifier).
CallGetRecord ==
    \E id \in Identifiers :
        Enter("get_record", "GetRecord",
              << [k |-> "metadataPrefix", v |-> OptionValue(options, "metadataPrefix")],
                 [k |-> "identifier", v |-> Some(id)] >>,
              "none")

\* Harvester.list_records: its first statement calls self.make_option_string,
\* which Harvester does not define, so the call raises AttributeError before
\* compile_data is reached.
CallListRecords ==
    /\ UNCHANGED harvestVars
    /\ status # "running"
    /\ calls < MaxCalls
    /\ calls' = calls + 1
    /\ op' = "list_records" /\ status' = "raised"
    /\ exc' = Some(Exc("AttributeError", None, None)) /\ result' = None
    /\ verb' = None /\ arguments' = <<>> /\ docfilter' = "docfilter_records"
    /\ data' = <<>> /\ depth' = 0 /\ override' = None
    /\ reqs' = 0 /\ wire' = <<>> /\ slept' = 0 /\ trigger' = None
    /\ fetched' = <<>> /\ lastResp' = NoResp
    /\ UNCHANGED <<endpointVars, options, chain, sent, max0>>

\* --------------------------------------------------------------- get_page
\* get_page line 188: the sleep before the request.
GetPageSleep(self_sleep, sleep_override) ==
    IF sleep_override = None THEN self_sleep ELSE sleep_override[1]

\* _handle_http_error line 158: int(error.hdrs.get('Retry-After', '-1')).
RetryAfter(hdrs) == IF hdrs = None THEN -1 ELSE hdrs[1]

\* Body sizes: the decoded text of a page, and what travels on the wire: the
\* server deflates pages (_decompress inflates them) and sends its error
\* bodies as they are (_decompress falls back to the raw bytes).
TextLen(doc) == 2 * Len(doc) + 2
RawLen(doc) == Len(doc) + 1

\* get_page lines 188-195: sleep, build the URL, send the request.
SendRequest ==
    /\ status = "running"
    /\ sent < MaxReq
    /\ sent' = sent + 1
    /\ slept' = GetPageSleep(sleep_time, override)
    /\ wire' = make_querystring(verb, arguments)
    /\ reqs' = reqs + 1

\* compile_data line 210.
extend(acc, items) == acc \o items

\* compile_data line 212: the loop ends when the page has no token element.
PaginationEnds(rtoken) == rtoken = None

\* compile_data line 214: the arguments of the next request.
TokenArguments(text) == <<[k |-> "resumptionToken", v |-> text]>>

\* ETreeXmlDoc.fromstring on the text of a page.
fromstring(elements) == ETreeXmlDoc(elements, namespaces)

\* compile_data lines 210-214 once get_page has returned page: extend the
\* accumulator, look for the token element, shape the next arguments.
CompileStep(page) ==
    LET items == ApplyFilter(docfilter, page)
        acc == IF items.ok THEN extend(data, items.val) ELSE data
        rtoken == find_tag(page, <<"oai", "resumptionToken">>)
        text == IF rtoken = None THEN Ok(None) ELSE GetAttr(rtoken[1], "text")
    IN  /\ data' = acc
        /\ IF ~items.ok
           THEN /\ status' = "raised"
                /\ exc' = Some(Exc(items.exc, None, None))
                /\ UNCHANGED <<result, arguments>>
           ELSE IF PaginationEnds(rtoken)
           THEN /\ status' = "returned"
                /\ exc' = None
                /\ result' = acc
                /\ UNCHANGED arguments
           ELSE IF ~text.ok
           THEN /\ status' = "raised"
                /\ exc' = Some(Exc(text.exc, None, None))
                /\ UNCHANGED <<result, arguments>>
           ELSE /\ status' = "running"
                /\ exc' = None
                /\ result' = None
                /\ arguments' = TokenArguments(text.val)

\* The caller's continuation once get_page has returned page to it:
\* compile_data's loop body for get_ids, find_tag('oai:record') for
\* get_record, the page itself for a direct call.
Returned(page) ==
    IF op = "get_ids" THEN CompileStep(page)
    ELSE /\ status' = "returned"
         /\ exc' = None
         /\ result' = IF op = "get_record"
                      THEN find_tag(page, <<"oai", "record">>)
                      ELSE page
         /\ UNCHANGED <<data, arguments>>

\* A get_page in which every frame on the stack, the retrying one and those
\* that recovered above it, counts the bytes of the page.
RespondPage_every_frame_counts ==
    /\ UNCHANGED harvestVars
    /\ SendRequest
    /\ LET idx == ServerPageIndex(make_querystring(verb, arguments), chain)
       IN  /\ idx # 0
           /\ raw_bytes' = raw_bytes + (depth + 1) * RawLen(chain[idx])
           /\ data_bytes' = data_bytes + (depth + 1) * TextLen(chain[idx])
           /\ last_page' = Some(fromstring(chain[idx]))
           /\ fetched' = Append(fetched, idx)
           /\ lastResp' = PageResp(chain[idx])
           /\ IF depth > 0
              THEN /\ status' = "raised"
                   /\ exc' = Some(Exc("TypeError", None, None))
                   /\ UNCHANGED <<result, data, arguments>>
              ELSE Returned(fromstring(chain[idx]))
    /\ depth' = 0
    /\ override' = None
    /\ UNCHANGED <<max_recoveries, num_recoveries, http_errors, oai_error,
                   sleep_time, options, chain, op, verb, docfilter, trigger,
                   calls, max0>>

\* The request is answered 200 with the page the server owes it.
\* get_page lines 198-203 in the frame that sent the request; when that frame
\* was entered from _handle_http_error (depth > 0) the Document it returns
\* becomes `data` of the frame above, whose len(data) at line 198 raises
\* TypeError.
RespondPage ==
    /\ UNCHANGED harvestVars
    /\ SendRequest
    /\ LET idx == ServerPageIndex(make_querystring(verb, arguments), chain)
       IN  /\ idx # 0
           /\ raw_bytes' = raw_bytes + RawLen(chain[idx])
           /\ data_bytes' = data_bytes + TextLen(chain[idx])
           /\ last_page' = Some(fromstring(chain[idx]))
           /\ fetched' = Append(fetched, idx)
           /\ lastResp' = PageResp(chain[idx])
           /\ IF depth > 0
              THEN /\ status' = "raised"
                   /\ exc' = Some(Exc("TypeError", None, None))
                   /\ UNCHANGED <<result, data, arguments>>
              ELSE Returned(fromstring(chain[idx]))
    /\ depth' = 0
    /\ override' = None
    /\ UNCHANGED <<max_recoveries, num_recoveries, http_errors, oai_error,
                   sleep_time, options, chain, op, verb, docfilter, trigger,
                   calls, max0>>

\* A protocol error that also forgets the page parsed last.
RespondOaiError_clearing ==
    /\ UNCHANGED harvestVars
    /\ SendRequest
    /\ \E e \in OaiErrors :
        /\ oai_error' = Some(e)
        /\ exc' = Some(_bail(None, http_errors, Some(e)))
        /\ lastResp' = OaiResp(e)
    /\ raw_bytes' = raw_bytes + 2
    /\ data_bytes' = data_bytes + 2
    /\ last_page' = None
    /\ status' = "raised"
    /\ depth' = 0
    /\ override' = None
    /\ UNCHANGED <<max_recoveries, num_recoveries, http_errors,
                   sleep_time, options, chain, op, result, verb, arguments,
                   docfilter, data, trigger, fetched, calls, max0>>

\* The request is answered 200 with a body that holds
\* <error code="...">...</error>: _catch_and_handle_oai_error records it and
\* bails.
RespondOaiError ==
    /\ UNCHANGED harvestVars
    /\ SendRequest
    /\ \E e \in OaiErrors :
        /\ oai_error' = Some(e)
        /\ exc' = Some(_bail(None, http_errors, Some(e)))
        /\ lastResp' = OaiResp(e)
    /\ raw_bytes' = raw_bytes + 2
    /\ data_bytes' = data_bytes + 2
    /\ status' = "raised"
    /\ depth' = 0
    /\ override' = None
    /\ UNCHANGED <<max_recoveries, num_recoveries, http_errors, last_page,
                   sleep_time, options, chain, op, result, verb, arguments,
                   docfilter, data, trigger, fetched, calls, max0>>

\* A compile_data that swallows the ParseError of a page and returns what it
\* has accumulated so far.
RespondMalformed_swallowed ==
    /\ UNCHANGED harvestVars
    /\ SendRequest
    /\ raw_bytes' = raw_bytes + 1
    /\ data_bytes' = data_bytes + 1
    /\ lastResp' = MalformedResp
    /\ IF op = "get_ids"
       THEN status' = "returned" /\ exc' = None /\ result' = data
       ELSE status' = "raised" /\ exc' = Some(Exc("ParseError", None, None))
            /\ UNCHANGED result
    /\ depth' = 0
    /\ override' = None
    /\ UNCHANGED <<max_recoveries, num_recoveries, http_errors, oai_error,
                   last_page, sleep_time, options, chain, op, verb,
                   arguments, docfilter, data, trigger, fetched, calls, max0>>

\* The request is answered 200 with text that is not well-formed XML:
\* ET.fromstring raises ParseError at line 202.
RespondMalformed ==
    /\ UNCHANGED harvestVars
    /\ SendRequest
    /\ raw_bytes' = raw_bytes + 1
    /\ data_bytes' = data_bytes + 1
    /\ lastResp' = MalformedResp
    /\ exc' = Some(Exc("ParseError", None, None))
    /\ status' = "raised"
    /\ depth' = 0
    /\ override' = None
    /\ UNCHANGED <<max_recoveries, num_recoveries, http_errors, oai_error,
                   last_page, sleep_time, options, chain, op, result, verb,
                   arguments, docfilter, data, trigger, fetched, calls, max0>>

\* _handle_http_error line 160: the recovery budget is used up.
BudgetExhausted(num, max) == num >= max

\* A recovery that counts itself twice against an unchanged budget.
Recovered_twice(num, max) == [num |-> num + 2, max |-> max]

\* _handle_http_error line 162: the counter the handler advances.
Recovered(num, max) == [num |-> num, max |-> max + 1]

\* The request is answered with an HTTP error: _handle_http_error.
RespondHttpError ==
    /\ UNCHANGED harvestVars
    /\ SendRequest
    /\ \E code \in {SERVICE_UNAVAILABLE} \cup OtherHttpCodes :
       \E hdrs \in (IF code = SERVICE_UNAVAILABLE THEN RetryAfterHeaders ELSE {None}) :
        LET errors == Append(http_errors, code)
            exhausted == code # SERVICE_UNAVAILABLE
                         /\ BudgetExhausted(num_recoveries, max_recoveries)
            after == IF code # SERVICE_UNAVAILABLE /\ ~exhausted
                     THEN Recovered(num_recoveries, max_recoveries)
                     ELSE [num |-> num_recoveries, max |-> max_recoveries]
            retry_wait == IF code = SERVICE_UNAVAILABLE THEN RetryAfter(hdrs)
                          ELSE default_recovery_time
        IN  /\ http_errors' = errors
            /\ lastResp' = HttpResp(code, hdrs)
            /\ num_recoveries' = after.num
            /\ max_recoveries' = after.max
            /\ IF exhausted
               THEN /\ status' = "raised"
                    /\ exc' = Some(_bail("Exceeded max number of recovery attempts.",
                                         errors, oai_error))
                    /\ depth' = 0 /\ override' = None
                    /\ UNCHANGED trigger
               ELSE IF retry_wait < 0
               THEN /\ status' = "raised"
                    /\ exc' = Some(_bail("Retries are disabled.", errors, oai_error))
                    /\ depth' = 0 /\ override' = None
                    /\ UNCHANGED trigger
               ELSE /\ status' = "running"
                    /\ exc' = None
                    /\ depth' = depth + 1
                    /\ override' = Some(retry_wait)
                    /\ trigger' = Some([code |-> code, hdrs |-> hdrs])
    /\ UNCHANGED <<oai_error, raw_bytes, data_bytes, last_page, sleep_time,
                   options, chain, op, result, verb, arguments, docfilter, data,
                   fetched, calls, max0>>

Next ==
    \/ CallGetPage
    \/ CallGetIds
    \/ CallGetRecord
    \/ CallListRecords
    \/ RespondPage
    \/ RespondOaiError
    \/ RespondMalformed
    \/ RespondHttpError

Spec == Init /\ [][Next]_vars

\* ============================================ harvest_all_from_collection
\* The identifiers get_ids may hand to the loop, and the number of items
\* asked for.
ArkIds == {"ark:/67531/metadc1", "ark:/67531/metadc2", "ark:/67531/metadc3"}
Wanted == {0, 2}

\* Endpoint.__init__: max_recoveries when the caller gives none, as
\* Harvester.__init__ does.
default_max_recoveries == 3

\* harvest.py line 63: the loop condition.
LoopContinues(ids, got, wanted) == ids # {} /\ Len(got) < wanted

\* harvest.py line 67: ark_ids - {'ark_id'}: the set less the text 'ark_id',
\* whatever the identifier chosen.
WithoutChosen(ids, chosen) == ids \ {"ark_id"}

\* harvest_pdf: urlopen gives the bytes, or raises HTTPError for an error
\* status, or URLError when the server cannot be reached.
PdfOutcomes == {"bytes", "HTTPError", "URLError"}

\* pdf.extract_text_as_xml_from_bytes: whatever the reader makes of the
\* bytes, extract_text_as_xml ends in ETreeXmlDoc(root), one argument short
\* of __init__(etree_node, namespaces): TypeError.
extract_text_as_xml_from_bytes(pdf_bytes) == Raise("TypeError")

\* harvester.get_record(ark_id) as the loop sees it: a record or an exception.
RecordOutcomes == {"record", "raised"}

\* harvest.py lines 88-91: the two files of an item.
FilesOf(id) == {<<id, "fulltext">>, <<id, "metadata">>}

oaiVars ==
    <<max_recoveries, num_recoveries, http_errors, oai_error,
      raw_bytes, data_bytes, last_page, sleep_time, options, chain,
      op, status, exc, result, verb, arguments, docfilter, data, depth, override,
      reqs, wire, slept, trigger, fetched, lastResp, calls, sent, max0>>

\* harvest_all_from_collection after line 62: get_ids has given the
\* identifiers, nothing has been tried yet.
HarvestInit ==
    /\ max0 = default_max_recoveries
    /\ max_recoveries = max0
    /\ num_recoveries = 0
    /\ http_errors = <<>>
    /\ oai_error = None
    /\ raw_bytes = 0
    /\ data_bytes = 0
    /\ last_page = None
    /\ sleep_time = 0
    /\ options \in {HarvesterOptions(o) : o \in {u \in UserOptions : u.set # None}}
    /\ chain = MkChain(<< <<IdEl("c")>> >>, "absent")
    /\ op = "none" /\ status = "idle" /\ exc = None /\ result = None
    /\ verb = None /\ arguments = <<>> /\ docfilter = "none" /\ data = <<>>
    /\ depth = 0 /\ override = None
    /\ reqs = 0 /\ wire = <<>> /\ slept = 0 /\ trigger = None
    /\ fetched = <<>> /\ lastResp = NoResp
    /\ calls = 0
    /\ sent = 0
    /\ h_ids0 \in SUBSET ArkIds
    /\ h_ark_ids = h_ids0
    /\ h_num \in Wanted
    /\ h_items = <<>> /\ h_saved = {} /\ h_ark_id = None
    /\ h_pc = "loop" /\ h_outcome = "none" /\ h_attempted = <<>>

\* One pass of the loop body, lines 64-93.
HarvestPass ==
    /\ h_pc = "loop"
    /\ LoopContinues(h_ark_ids, h_items, h_num)
    /\ Len(h_attempted) < MaxIter
    /\ \E chosen \in h_ark_ids, fetch \in PdfOutcomes, rec \in RecordOutcomes :
        LET text == extract_text_as_xml_from_bytes(fetch)
        IN  /\ h_ark_id' = Some(chosen)
            /\ h_ark_ids' = WithoutChosen(h_ark_ids, chosen)
            /\ h_attempted' = Append(h_attempted, chosen)
            /\ IF fetch = "URLError"
               THEN h_pc' = "raised" /\ h_outcome' = "aborted"
                    /\ UNCHANGED <<h_items, h_saved>>
               ELSE IF fetch = "HTTPError"
               THEN h_pc' = "loop" /\ h_outcome' = "pdf_http_error"
                    /\ UNCHANGED <<h_items, h_saved>>
               ELSE IF ~text.ok
               THEN h_pc' = "loop" /\ h_outcome' = "extract_error"
                    /\ UNCHANGED <<h_items, h_saved>>
               ELSE IF rec = "raised"
               THEN h_pc' = "loop" /\ h_outcome' = "record_error"
                    /\ UNCHANGED <<h_items, h_saved>>
               ELSE h_pc' = "loop" /\ h_outcome' = "saved"
                    /\ h_saved' = h_saved \cup FilesOf(chosen)
                    /\ h_items' = Append(h_items, chosen)
    /\ UNCHANGED <<h_num, h_ids0, oaiVars>>

\* Line 94: the loop condition is false and the items are returned.
HarvestReturn ==
    /\ h_pc = "loop"
    /\ ~LoopContinues(h_ark_ids, h_items, h_num)
    /\ h_pc' = "returned"
    /\ UNCHANGED <<h_ark_ids, h_items, h_ark_id, h_num, h_saved, h_outcome,
                   h_attempted, h_ids0, oaiVars>>

HarvestNext ==
    \/ HarvestPass
    \/ HarvestReturn

SpecHarvest == HarvestInit /\ [][HarvestNext]_vars

\* ================================================================ claims
IsCompile == op = "get_ids"
TokenTag == <<OAI_NS, "resumptionToken">>
HasToken(elements) == \E i \in 1..Len(elements) : elements[i].tag = TokenTag
TokenTextOf(elements) ==
    LET t == SelectSeq(elements, LAMBDA el : el.tag = TokenTag)[1].text
    IN  IF t = None THEN "" ELSE t[1]

\* What an extractor is to give for a page: the texts of its identifier
\* elements, or its record elements as Documents, in document order.
Extracted(f, elements) ==
    IF f = "docfilter_ids"
    THEN LET ids == SelectSeq(elements, LAMBDA el : el.tag = <<OAI_NS, "identifier">>)
         IN  [i \in 1..Len(ids) |-> ids[i].text]
    ELSE LET recs == SelectSeq(elements, LAMBDA el : el.tag = <<OAI_NS, "record">>)
         IN  [i \in 1..Len(recs) |-> ETreeXmlDoc(<<recs[i]>>, namespaces)]

RECURSIVE ConcatExtracted(_, _, _)
\* f(P1) ++ ... ++ f(Pn) for the first n pages of a chain.
ConcatExtracted(f, ch, n) ==
    IF n = 0 THEN <<>>
    ELSE ConcatExtracted(f, ch, n - 1) \o Extracted(f, ch[n])

\* Every request of the call so far was answered with the page it asked for.
OnlyPagesServed == reqs >= 1 /\ reqs = Len(fetched)

\* C1: on a well-formed chain (the last page without a token element) whose
\* pages the server serves, compile_data returns f(P1) ++ ... ++ f(Pk), in
\* page order and in each page's extracted order; stated for the record
\* extractor, which itself never fails.
C1_CompileDataConcatenates ==
    ( /\ IsCompile /\ docfilter = "docfilter_records"
      /\ status # "running" /\ OnlyPagesServed
      /\ ~HasToken(chain[Len(chain)]) ) =>
        /\ status = "returned"
        /\ result = ConcatExtracted(docfilter, chain, Len(chain))

\* C2: with max_recoveries = N and only non-503 errors answered, a get_page
\* call on a fresh endpoint raises EndpointError after exactly N+1 requests,
\* the error list then holding N+1 entries.
C2_FailsAfterNRecoveries ==
    ( /\ op = "get_page" /\ calls = 1 /\ reqs >= 1
      /\ Len(http_errors) = reqs
      /\ \A i \in 1..Len(http_errors) : http_errors[i] # SERVICE_UNAVAILABLE ) =>
        /\ reqs <= max0 + 1
        /\ reqs < max0 + 1 => status = "running"
        /\ reqs = max0 + 1 =>
            /\ status = "raised"
            /\ exc[1].type = "EndpointError"
            /\ Len(http_errors) = max0 + 1

\* C3: a retry caused by a 503 with Retry-After w >= 0 is sent after a wait of
\* at least w, and when it is answered with a good page the get_page call
\* returns the Document of that page.
C3_RetryAfter503Succeeds ==
    ( /\ op = "get_page"
      /\ trigger # None /\ trigger[1].code = SERVICE_UNAVAILABLE
      /\ lastResp.kind = "page" ) =>
        /\ slept >= RetryAfter(trigger[1].hdrs)
        /\ status = "returned"
        /\ result = fromstring(lastResp.page[1])

\* C4: a body with an inline protocol error is recorded with its code and
\* message and ends the call with EndpointError, whatever the endpoint has
\* accumulated before.
C4_ProtocolErrorIsEndpointError ==
    lastResp.kind = "oaierror" =>
        /\ oai_error = lastResp.oai
        /\ status = "raised"
        /\ exc[1].type = "EndpointError"
        /\ exc[1].oai = lastResp.oai

\* C5: a 503 whose Retry-After is absent or negative is not retried and the
\* call fails with EndpointError.
C5_DisabledRetryIsEndpointError ==
    ( /\ lastResp.kind = "http" /\ lastResp.code = SERVICE_UNAVAILABLE
      /\ RetryAfter(lastResp.hdrs) < 0 ) =>
        /\ status = "raised"
        /\ exc[1].type = "EndpointError"

\* C6: the requests of one get_page call are bounded by the budget given at
\* construction: answered with non-503 errors only, the call sends at most
\* max_recoveries + 1 requests, whatever the session has seen before.
C6_RequestsBoundedByBudget ==
    ( /\ op = "get_page" /\ lastResp.kind = "http"
      /\ Len(http_errors) >= reqs
      /\ \A i \in 1..reqs :
            http_errors[Len(http_errors) - reqs + i] # SERVICE_UNAVAILABLE ) =>
        reqs <= max0 + 1

\* C7: after a page with a token element, compile_data goes on to a request
\* that carries the verb and resumptionToken=<the element's text> and
\* nothing else.
C7_TokenEchoedAsSoleArgument ==
    ( /\ IsCompile /\ docfilter = "docfilter_records"
      /\ OnlyPagesServed /\ lastResp.kind = "page"
      /\ HasToken(lastResp.page[1]) ) =>
        /\ status = "running"
        /\ make_querystring(verb, arguments) =
              <<"?", "verb", "=", verb[1], "&",
                "resumptionToken", "=", TokenTextOf(lastResp.page[1])>>

\* C8: compile_data fetches the pages of the chain one after the other, each
\* once, with one request per page; it goes on when the page just fetched
\* has a token element and returns at the first page that has none.
C8_SequentialOncePerPage ==
    ( /\ IsCompile /\ docfilter = "docfilter_records"
      /\ OnlyPagesServed /\ lastResp.kind = "page" ) =>
        /\ fetched = [i \in 1..Len(fetched) |-> i]
        /\ HasToken(lastResp.page[1]) => status = "running"
        /\ ~HasToken(lastResp.page[1]) => status = "returned"

NonNull(pairs) == SelectSeq(pairs, LAMBDA p : p.v # None)

\* qs is '?', then k=v for each pair in order, '&' between neighbours.
IsQueryStringOf(qs, pairs) ==
    /\ Len(qs) = (IF pairs = <<>> THEN 1 ELSE 4 * Len(pairs))
    /\ qs[1] = "?"
    /\ \A j \in 1..Len(pairs) :
        /\ qs[4 * j - 2] = pairs[j].k
        /\ qs[4 * j - 1] = "="
        /\ qs[4 * j] = pairs[j].v[1]
        /\ j < Len(pairs) => qs[4 * j + 1] = "&"

\* The request just sent was built from the frame's verb and arguments.
C9_EveryRequest ==
    sent' = sent + 1 =>
        IsQueryStringOf(wire', NonNull(<<[k |-> "verb", v |-> verb]>> \o arguments))

\* get_ids' first request when only metadataPrefix and set were given.
C9_Example ==
    ( /\ op = "get_ids" /\ reqs = 1
      /\ OptionValue(options, "from") = None
      /\ OptionValue(options, "until") = None
      /\ OptionValue(options, "set") # None ) =>
        wire = <<"?", "verb", "=", "ListIdentifiers", "&",
                 "metadataPrefix", "=", OptionValue(options, "metadataPrefix")[1], "&",
                 "set", "=", OptionValue(options, "set")[1]>>

\* C9: every query string is '?', verb=<verb>, then k=v for each argument
\* whose value is not None, in insertion order, joined by '&'; None-valued
\* arguments leave no trace.  With only metadataPrefix and set given,
\* get_ids first asks ?verb=ListIdentifiers&metadataPrefix=<p>&set=<s>.
C9_QueryString == [][C9_EveryRequest]_vars /\ []C9_Example

\* get_ids has sent its first request, from and until being None.
C9_Witness ==
    /\ op = "get_ids" /\ reqs = 1
    /\ OptionValue(options, "from") = None
    /\ wire = <<"?", "verb", "=", "ListIdentifiers", "&",
                "metadataPrefix", "=", "untl_raw", "&",
                "set", "=", "access_rights:public">>

\* C10: list_records runs compile_data with ListRecords, the normalized
\* options and the record extractor: it returns the records of all pages in
\* page order, and fails only when a request of its own has failed.
C10_ListRecordsCompiles ==
    op = "list_records" =>
        /\ verb = Some("ListRecords")
        /\ status = "raised" => reqs >= 1
        /\ status = "returned" =>
            result = ConcatExtracted("docfilter_records", chain, Len(chain))

\* The first record element of a page, as a Document, or None.
FirstRecord(elements) ==
    LET recs == SelectSeq(elements, LAMBDA el : el.tag = <<OAI_NS, "record">>)
    IN  IF recs = <<>> THEN None ELSE Some(ETreeXmlDoc(<<recs[1]>>, namespaces))

\* C11: get_record(identifier) asks GetRecord with exactly the arguments
\* metadataPrefix and identifier (from, until and set never travel), makes
\* one page fetch and follows no resumption token, and returns the first
\* record element of that page, or None when the page holds no record.
C11_GetRecordSinglePage ==
    op = "get_record" =>
        /\ verb = Some("GetRecord")
        /\ \E id \in Identifiers :
            /\ arguments =
                  << [k |-> "metadataPrefix", v |-> OptionValue(options, "metadataPrefix")],
                     [k |-> "identifier", v |-> Some(id)] >>
            /\ reqs >= 1 =>
                  wire = <<"?", "verb", "=", "GetRecord", "&",
                           "metadataPrefix", "=", OptionValue(options, "metadataPrefix")[1], "&",
                           "identifier", "=", id>>
        /\ Len(fetched) <= 1
        /\ status = "returned" =>
            /\ fetched = <<1>>
            /\ result = FirstRecord(chain[1])

\* get_record has returned the first of two records of a page that carries
\* a resumption token, after a single request.
C11_Witness ==
    /\ op = "get_record" /\ status = "returned" /\ reqs = 1
    /\ HasToken(chain[1])
    /\ result = Some(ETreeXmlDoc(<<RecEl("r1")>>, namespaces))

\* get_record has returned None for a page without a record element.
C11_WitnessNone ==
    op = "get_record" /\ status = "returned" /\ result = None

\* C12: whenever the endpoint bails (a protocol error, retries disabled, or
\* the recovery budget exhausted) the failure is an EndpointError that
\* carries the protocol error, if any, whether or not HTTP errors have been
\* accumulated.
C12_BailRaisesEndpointError ==
    ( /\ op \in {"get_page", "get_ids", "get_record"}
      /\ status = "raised"
      /\ lastResp.kind \in {"http", "oaierror"} ) =>
        /\ exc # None
        /\ exc[1].type = "EndpointError"
        /\ exc[1].oai = oai_error

\* C13: in every state num_recoveries <= max_recoveries, unless the call has
\* ended in a terminal failure; and no step of any operation decreases
\* num_recoveries.
C13_RecoveriesWithinBudget ==
    /\ [](num_recoveries <= max_recoveries \/ status = "raised")
    /\ [][num_recoveries' >= num_recoveries]_vars

\* A non-503 error has been recovered from and its retry is pending.
C13_Witness ==
    /\ status = "running" /\ depth >= 1
    /\ lastResp.kind = "http" /\ lastResp.code # SERVICE_UNAVAILABLE
    /\ num_recoveries <= max_recoveries

\* The non-503 errors among the accumulated HTTP errors.
NonUnavailable(errors) == SelectSeq(errors, LAMBDA code : code # SERVICE_UNAVAILABLE)

\* C14: a non-503 error met with the budget not exhausted adds exactly one
\* to num_recoveries, so that the counter equals the number of non-503
\* errors recovered from; max_recoveries keeps the value the endpoint was
\* constructed with; and the retry waits the fixed default time.
C14_RecoveryAdvancesCounter ==
    /\ max_recoveries = max0
    /\ ( /\ status = "running" /\ depth >= 1
         /\ lastResp.kind = "http" /\ lastResp.code # SERVICE_UNAVAILABLE ) =>
            /\ num_recoveries = Len(NonUnavailable(http_errors))
            /\ override = Some(default_recovery_time)

\* The last request of the call made get_page fail: a protocol error, a
\* malformed body, or an HTTP error that was not retried.
GetPageFailed ==
    \/ lastResp.kind \in {"oaierror", "malformed"}
    \/ lastResp.kind = "http" /\ depth = 0

\* C15: when get_page fails inside compile_data, compile_data ends with
\* that failure: the call has raised, it has returned no result (no partial
\* list either), and it sends no further request.
C15_FailureEndsCompile ==
    /\ []((IsCompile /\ GetPageFailed) =>
            (status = "raised" /\ exc # None /\ result = None))
    /\ [][(IsCompile /\ status = "raised" /\ calls' = calls) => sent' = sent]_vars

\* compile_data has failed on a page that could not be parsed.
C15_Witness ==
    /\ IsCompile /\ status = "raised" /\ lastResp.kind = "malformed"
    /\ exc = Some(Exc("ParseError", None, None)) /\ result = None

\* A step that sends a request and gets the answer named.
Answered(kinds) == sent' = sent + 1 /\ lastResp'.kind \in kinds

\* C16: last_page holds the Document of the response parsed last: a get_page
\* that returns has stored the Document it returns; a response that parses
\* replaces last_page with its Document; and a step that fails on a protocol
\* error, an HTTP error or a malformed body, like a step that starts a call,
\* leaves last_page as it was.
C16_LastPageIsLastParsed ==
    /\ []((op = "get_page" /\ status = "returned") => last_page = Some(result))
    /\ [][Answered({"page"}) =>
            last_page' = Some(ETreeXmlDoc(lastResp'.page[1], namespaces))]_vars
    /\ [][~Answered({"page"}) => last_page' = last_page]_vars

\* A second get_page has failed on a protocol error while last_page still
\* holds the page the first call returned.
C16_Witness ==
    /\ op = "get_page" /\ status = "raised" /\ lastResp.kind = "oaierror"
    /\ calls = 2 /\ last_page = Some(ETreeXmlDoc(chain[1], namespaces))

\* The last pass of the harvesting loop failed on its item: the PDF fetch
\* met an HTTP error, the text extraction failed, or get_record failed.
ItemFailed == h_outcome \in {"pdf_http_error", "extract_error", "record_error"}

\* The run goes on after a failed item, which is neither in the result list
\* nor on disk.
FailureLeavesNoTrace ==
    ItemFailed =>
        /\ h_pc \in {"loop", "returned"}
        /\ \A i \in 1..Len(h_items) : h_items[i] # h_ark_id[1]
        /\ FilesOf(h_ark_id[1]) \cap h_saved = {}

C18_AccountedOnce ==
    /\ [][Answered({"http"}) =>
            /\ http_errors' = Append(http_errors, lastResp'.code)
            /\ raw_bytes' = raw_bytes /\ data_bytes' = data_bytes]_vars
    /\ [][Answered({"page"}) =>
            /\ raw_bytes' = raw_bytes + RawLen(lastResp'.page[1])
            /\ data_bytes' = data_bytes + TextLen(lastResp'.page[1])
            /\ http_errors' = http_errors]_vars
    /\ [][Answered({"oaierror", "malformed"}) =>
            /\ raw_bytes' > raw_bytes /\ data_bytes' > data_bytes
            /\ http_errors' = http_errors]_vars
    /\ [][sent' = sent =>
            /\ raw_bytes' = raw_bytes /\ data_bytes' = data_bytes
            /\ http_errors' = http_errors]_vars

\* A page has answered the retry that followed a recovered HTTP error, and
\* the counters hold that one page and that one error.
C18_Witness ==
    /\ sent = 2 /\ lastResp.kind = "page" /\ trigger # None
    /\ Len(http_errors) = 1
    /\ raw_bytes = RawLen(lastResp.page[1])
    /\ data_bytes = TextLen(lastResp.page[1])

====
